---- MODULE Spec2Model ----
(***************************************************************************)
(* libeemd: the ensemble driver (eemd, ceemdan), memd, parameter           *)
(* validation and emd_num_imfs, as state machines over one call.           *)
(*                                                                         *)
(* Sample values are exact rationals <<numerator, denominator>>.  The      *)
(* sifter's numeric result, the spline errors, the Gaussian generator and  *)
(* the standard deviation come from code outside the modelled files; they  *)
(* are drawn from small sets or given by fixed deterministic stand-ins.    *)
(***************************************************************************)
EXTENDS Integers, Sequences, FiniteSets, TLC

\* ------------------------------------------------------------------ bounds
MaxN == 2
MaxM == 2
MaxEnsemble == 2
MaxThreads == 2
MaxSeed == 1
MaxShift == 1
MaxFailures == 1
MaxArg == 16
MaxD == 2
MaxSiftings == 2
MaxSNumber == 2
MaxExtrema == 3
MaxIterations == 4

\* ------------------------------------------------- platform constants
\* width of size_t and of the significand of double on the LP64 builds the
\* Makefile targets
SIZE_BITS == 64
DBL_MANT_DIG == 53

\* ----------------------------------------------------------- error codes
EMD_SUCCESS == "EMD_SUCCESS"
EMD_INVALID_ENSEMBLE_SIZE == "EMD_INVALID_ENSEMBLE_SIZE"
EMD_INVALID_NOISE_STRENGTH == "EMD_INVALID_NOISE_STRENGTH"
EMD_NOISE_ADDED_TO_EMD == "EMD_NOISE_ADDED_TO_EMD"
EMD_NO_NOISE_ADDED_TO_EEMD == "EMD_NO_NOISE_ADDED_TO_EEMD"
EMD_NO_CONVERGENCE_POSSIBLE == "EMD_NO_CONVERGENCE_POSSIBLE"
EMD_NOT_ENOUGH_POINTS_FOR_SPLINE == "EMD_NOT_ENOUGH_POINTS_FOR_SPLINE"
EMD_INVALID_SPLINE_POINTS == "EMD_INVALID_SPLINE_POINTS"

\* the codes emd_evaluate_spline can hand to _sift
SplineErrors == {EMD_NOT_ENOUGH_POINTS_FOR_SPLINE, EMD_INVALID_SPLINE_POINTS}

\* ------------------------------------------------------ exact rationals
RECURSIVE GCD(_, _)
GCD(a, b) == IF b = 0 THEN a ELSE GCD(b, a % b)

Abs(a) == IF a < 0 THEN -a ELSE a

RNorm(n, d) ==
  LET g == GCD(Abs(n), Abs(d))
      s == IF d < 0 THEN -1 ELSE 1
  IN  <<(s * n) \div g, (s * d) \div g>>

Rat(n) == <<n, 1>>
RAdd(a, b) == RNorm(a[1] * b[2] + b[1] * a[2], a[2] * b[2])
RSub(a, b) == RNorm(a[1] * b[2] - b[1] * a[2], a[2] * b[2])
RMul(a, b) == RNorm(a[1] * b[1], a[2] * b[2])
RLess(a, b) == a[1] * b[2] < b[1] * a[2]
\* a / b for b # 0
RDiv(a, b) == RNorm(a[1] * b[2], a[2] * b[1])

\* ------------------------------------------------------- array kernels
Idx(n) == 0 .. (n - 1)

\* array_copy(src, n, dest): dest[i] = src[i]
array_copy(src, n) == [i \in Idx(n) |-> src[i]]

\* array_add(src, n, dest): dest[i] += src[i]
array_add(src, n, dest) == [i \in Idx(n) |-> RAdd(dest[i], src[i])]

\* array_addmul_to(src1, src2, val, n, dest): dest[i] = src1[i] + val*src2[i]
array_addmul_to(src1, src2, val, n) ==
  [i \in Idx(n) |-> RAdd(src1[i], RMul(val, src2[i]))]

\* array_sub(src, n, dest): dest[i] -= src[i]
MutArraySubReversed(src, n, dest) == [i \in Idx(n) |-> RSub(src[i], dest[i])]

array_sub(src, n, dest) == [i \in Idx(n) |-> RSub(dest[i], src[i])]

\* array_mult(dest, n, val): dest[i] *= val
MutArrayMultSkipped(dest, n, val) == dest

array_mult(dest, n, val) == [i \in Idx(n) |-> RMul(dest[i], val)]

\* the n elements of the flat buffer buf that start at offset off
Row(buf, off, n) == [i \in Idx(n) |-> buf[off + i]]

\* buf with the n elements from offset off replaced by v
PutRow(buf, off, n, v) ==
  [k \in DOMAIN buf |-> IF k >= off /\ k < off + n THEN v[k - off] ELSE buf[k]]

RowIdx(off, n) == {off + i : i \in Idx(n)}

\* ------------------------------------------------------- emd_num_imfs
\* A size_t value is a sequence of bits, most significant first, without
\* leading zeros (the empty sequence is 0): TLC's integers are narrower
\* than size_t.
RECURSIVE SizeT(_)
SizeT(n) == IF n = 0 THEN <<>> ELSE Append(SizeT(n \div 2), n % 2)

\* the bits b plus one, as a sequence of the same length, or of one more
\* bit when the carry runs out of the top
RECURSIVE BitsInc(_)
BitsInc(b) ==
  IF b = <<>> THEN <<1>>
  ELSE IF b[Len(b)] = 0 THEN [b EXCEPT ![Len(b)] = 1]
  ELSE Append(BitsInc(SubSeq(b, 1, Len(b) - 1)), 0)

\* the conversion of a size_t to double that log2(N) performs: values of
\* more than DBL_MANT_DIG bits are rounded to nearest, ties to even.  The
\* result is the significand's bits and the number of zero bits after it.
ToDouble(b) ==
  IF Len(b) <= DBL_MANT_DIG THEN [sig |-> b, shift |-> 0]
  ELSE LET top   == SubSeq(b, 1, DBL_MANT_DIG)
           rest  == SubSeq(b, DBL_MANT_DIG + 1, Len(b))
           guard == rest[1]
           stick == \E i \in 2 .. Len(rest) : rest[i] = 1
           up    == guard = 1 /\ (stick \/ top[DBL_MANT_DIG] = 1)
       IN  [sig |-> IF up THEN BitsInc(top) ELSE top, shift |-> Len(rest)]

RECURSIVE BitsValue(_)
\* the number a short sequence of bits stands for
BitsValue(b) ==
  IF b = <<>> THEN 0
  ELSE 2 * BitsValue(SubSeq(b, 1, Len(b) - 1)) + b[Len(b)]

\* log2(x) is a double as well.  For x in [2^(k-1), 2^k) with 32 < k <= 64
\* the doubles below k are 2^-47 apart, and log2(x) is nearer to k than to
\* the double below k when x is at most LOG2_GAP_ULPS units of its last
\* place below 2^k (2^(k-1) * 2^-52 each): floor(ln 2 * 2^5) of them.
LOG2_GAP_ULPS == 22
LOG2_GAP_BITS == 5

\* the significand of x on DBL_MANT_DIG bits
Significand(x) ==
  [i \in 1 .. DBL_MANT_DIG |-> IF i <= Len(x.sig) THEN x.sig[i] ELSE 0]

\* log2(x) rounds to the next integer
Log2RoundsUp(x) ==
  /\ Len(x.sig) <= DBL_MANT_DIG
  /\ LET s   == Significand(x)
         low == SubSeq(s, DBL_MANT_DIG - LOG2_GAP_BITS + 1, DBL_MANT_DIG)
     IN  /\ \A i \in 1 .. (DBL_MANT_DIG - LOG2_GAP_BITS) : s[i] = 1
         /\ 2^LOG2_GAP_BITS - BitsValue(low) <= LOG2_GAP_ULPS

\* (size_t)(log2(x)) for a double x >= 1: the position of its leading bit,
\* one more when log2(x) rounds to the next integer
Log2Trunc(x) ==
  LET pos == Len(x.sig) + x.shift - 1
  IN  IF Log2RoundsUp(x) THEN pos + 1 ELSE pos

emd_num_imfs(N) ==
  IF N = <<>> THEN 0
  ELSE IF Len(N) <= 2 THEN 1
  ELSE Log2Trunc(ToDouble(N))

\* ----------------------------------------------- parameter validation
\* noise_strength is a double; the model keeps the values -1, 0 and 1
MutValidateOrder(ensemble_size, noise_strength, S_number, num_siftings) ==
  IF ensemble_size < 1 THEN EMD_INVALID_ENSEMBLE_SIZE
  ELSE IF S_number = 0 /\ num_siftings = 0 THEN EMD_NO_CONVERGENCE_POSSIBLE
  ELSE IF noise_strength < 0 THEN EMD_INVALID_NOISE_STRENGTH
  ELSE IF ensemble_size = 1 /\ noise_strength > 0 THEN EMD_NOISE_ADDED_TO_EMD
  ELSE IF ensemble_size > 1 /\ noise_strength = 0 THEN EMD_NO_NOISE_ADDED_TO_EEMD
  ELSE EMD_SUCCESS

_validate_eemd_parameters(ensemble_size, noise_strength, S_number, num_siftings) ==
  IF ensemble_size < 1 THEN EMD_INVALID_ENSEMBLE_SIZE
  ELSE IF noise_strength < 0 THEN EMD_INVALID_NOISE_STRENGTH
  ELSE IF ensemble_size = 1 /\ noise_strength > 0 THEN EMD_NOISE_ADDED_TO_EMD
  ELSE IF ensemble_size > 1 /\ noise_strength = 0 THEN EMD_NO_NOISE_ADDED_TO_EEMD
  ELSE IF S_number = 0 /\ num_siftings = 0 THEN EMD_NO_CONVERGENCE_POSSIBLE
  ELSE EMD_SUCCESS

\* ------------------------------------------------ external numerics
\* gsl_rng: the generator's state is the seed it was last set to and the
\* number of variates drawn since.  gsl_rng_set(r, seed):
gsl_rng_set(seed) == [seed |-> seed, pos |-> 0]

\* the standard normal variate number pos of the generator seeded with seed
\* (a fixed deterministic stand-in for mt19937 + the polar method)
Normal(seed, pos) == (((seed + 1) * (pos + 2)) % 5) - 2

\* gsl_ran_gaussian(r, sigma): the variate drawn
gsl_ran_gaussian(r, sigma) == RMul(sigma, Rat(Normal(r.seed, r.pos)))

\* the generator after n draws
Drawn(r, n) == [r EXCEPT !.pos = @ + n]

\* gsl_stats_sd(v, 1, n): a fixed deterministic stand-in that is zero on
\* constant data, the spread max - min
gsl_stats_sd(v, n) ==
  IF n <= 1 THEN Rat(0)
  ELSE LET hi == CHOOSE a \in {v[i] : i \in Idx(n)} :
                   \A b \in {v[i] : i \in Idx(n)} : ~RLess(a, b)
           lo == CHOOSE a \in {v[i] : i \in Idx(n)} :
                   \A b \in {v[i] : i \in Idx(n)} : ~RLess(b, a)
       IN  RSub(hi, lo)

\* what a successful call of _sift subtracts from its signal in total, the
\* sum of the envelope means of its iterations: the vector sifter*(i+1),
\* where sifter is fixed per call of the library
SiftEnvelope(sifter, n) == [i \in Idx(n) |-> Rat(sifter * (i + 1))]

\* how a call of _sift fails, when it does: the code emd_evaluate_spline
\* hands back, in the first iteration (input as it was) or in a later one
\* (envelope means already subtracted)
Failures == {[code |-> e, late |-> b] : e \in SplineErrors, b \in BOOLEAN}

\* _sift(input, ...): the value returned and the signal left in input
Sift(input, sifter, failure, n) ==
  {[err |-> EMD_SUCCESS, x |-> array_sub(SiftEnvelope(sifter, n), n, input)],
   [err |-> failure.code,
    x |-> IF failure.late THEN array_sub(SiftEnvelope(sifter, n), n, input)
          ELSE input]}

\* ------------------------------------------------------------- state
VARIABLES
  p,               \* the call: function and arguments
  pc,              \* position of the calling thread
  ret,             \* the returned value, "none" before the return
  M,               \* the local M (after defaulting)
  output,          \* the caller's output buffer, flat, row-major
  touched,         \* indices of output written so far
  err,             \* emd_err (eemd), sift_err (ceemdan), memd_err (memd)
  locks,           \* lock index -> holding thread, -1 when free
  heap,            \* live and freed blocks
  num_threads,     \* size of the team of the parallel regions
  wk,              \* thread_id -> the worker's position and workspace
  taken,           \* iterations of the current omp for already handed out
  imf_i,           \* mode loop counter of ceemdan and memd
  res,             \* residual of ceemdan and memd
  noises,          \* ceemdan: en_i -> noise vector
  noise_residuals, \* ceemdan: en_i -> noise residual vector
  g                \* history: what was drawn, added, observed

vars == <<p, pc, ret, M, output, touched, err, locks, heap, num_threads, wk,
          taken, imf_i, res, noises, noise_residuals, g>>

Threads == 0 .. (MaxThreads - 1)
Team == 0 .. (num_threads - 1)
Members == 0 .. (p.ensemble_size - 1)

\* value of memory that malloc returned and nobody wrote
Uninit == <<>>
\* content of the output buffer as the caller hands it over
Garbage == Rat(7)

NoWorker == [pc |-> "none", en_i |-> -1, imf_i |-> 0, x |-> Uninit,
             res |-> Uninit, r |-> Uninit, rv |-> EMD_SUCCESS]

\* omp_get_num_threads() called outside of a parallel region
OmpNumThreadsSequential == 1

\* ------------------------------------------------------------- heap
EmptyHeap == [live |-> {}, freed |-> {}, bad |-> FALSE]
Malloc(h, bs) == [h EXCEPT !.live = @ \cup bs]
Free(h, bs) ==
  [h EXCEPT !.live = @ \ bs, !.freed = @ \cup bs,
            !.bad = @ \/ ~(bs \subseteq h.live)]

\* -------------------------------------------------------- the calls
Signals(n) == {[i \in Idx(n) |-> Rat(2 * i + 3)]}

\* rows the caller's buffer has: M, or emd_num_imfs(N) when M = 0 is passed
Rows(m, n) == IF m = 0 THEN emd_num_imfs(SizeT(n)) ELSE m

\* A call of eemd or ceemdan.  sifter and failure select what the sifter
\* does to the signals of this call (see SiftEnvelope, Failures).
Call(f, n, s, m, e, ns, sn, nsift, seed, th, sifter, failure) ==
  [fn |-> f, N |-> n, input |-> s, M |-> m, ensemble_size |-> e,
   noise_strength |-> ns, S_number |-> sn, num_siftings |-> nsift,
   rng_seed |-> seed, omp_threads |-> th, sifter |-> sifter,
   failure |-> failure]

LateFailure == [code |-> EMD_NOT_ENOUGH_POINTS_FOR_SPLINE, late |-> TRUE]

\* seed, sifter behaviour and failure of the calls: every seed, every
\* sifter, every failure
Behaviours ==
  {<<seed, MaxShift, LateFailure>> : seed \in 0 .. MaxSeed}
  \cup {<<0, sifter, LateFailure>> : sifter \in 0 .. MaxShift}
  \cup {<<0, MaxShift, failure>> : failure \in Failures}

\* every combination of the validated parameters, on short inputs
ValidationCallsOn(n) ==
  {Call(f, n, s, m, e, ns, sn, nsift, 0, 1, 1, LateFailure) :
     f \in {"eemd", "ceemdan"}, s \in Signals(n), m \in 0 .. 1,
     e \in 0 .. MaxEnsemble, ns \in {-1, 0, 1}, sn \in 0 .. 1,
     nsift \in 0 .. 1}

\* valid calls run by one thread: every length, mode count, ensemble size
\* and behaviour
SequentialCallsOn(n) ==
  {Call(f, n, s, m, e, IF e = 1 THEN 0 ELSE 1, 1, 0, b[1], 1, b[2], b[3]) :
     f \in {"eemd", "ceemdan"}, s \in Signals(n), m \in 0 .. MaxM,
     e \in 1 .. MaxEnsemble, b \in Behaviours}

\* valid calls run by a team of MaxThreads: the default and the largest
\* mode count, every ensemble size.  A smaller team behaves like this one with threads that are
\* handed no iteration.
ParallelCallsOn(n) ==
  {Call(f, n, s, m, e, IF e = 1 THEN 0 ELSE 1, 1, 0, MaxSeed, MaxThreads,
        MaxShift, LateFailure) :
     f \in {"eemd", "ceemdan"}, s \in Signals(n), m \in {0, MaxM},
     e \in 1 .. MaxEnsemble}

EnsembleCalls ==
  UNION {ValidationCallsOn(n) : n \in 0 .. 1}
  \cup UNION {SequentialCallsOn(n) : n \in 0 .. MaxN}
  \cup ParallelCallsOn(MaxN)

Init ==
  /\ p \in EnsembleCalls
  /\ pc = "call"
  /\ ret = "none"
  /\ M = p.M
  /\ output = [k \in Idx(Rows(p.M, p.N) * p.N) |-> Garbage]
  /\ touched = {}
  /\ err = EMD_SUCCESS
  /\ locks = <<>>
  /\ heap = EmptyHeap
  /\ num_threads = 0
  /\ wk = [t \in Threads |-> NoWorker]
  /\ taken = {}
  /\ imf_i = 0
  /\ res = Uninit
  /\ noises = <<>>
  /\ noise_residuals = <<>>
  /\ g = [started |-> 0, sifts |-> 0, drawn |-> <<>>, added |-> {},
          nadds |-> 0, errs |-> {}, fails |-> 0, skipped |-> {}]

\* ------------------------------------------------------------ helpers
\* the return statement of the called function
Return(code) ==
  /\ pc' = "ret"
  /\ ret' = code

Worker(t, at) == t \in Team /\ wk[t].pc = at

\* the state gsl_rng_alloc leaves the generator in (mt19937's default seed)
DefaultSeed == 4357

MutNoReseed(r, rng_seed) == r

\* set_rng_seed(w, rng_seed): the generator of the workspace afterwards
set_rng_seed(r, rng_seed) == gsl_rng_set(rng_seed)

\* the outcomes of a call of _sift on input; at most MaxFailures calls of
\* one run of the library fail
SiftCall(input) ==
  {o \in Sift(input, p.sifter, p.failure, p.N) :
     o.err = EMD_SUCCESS \/ g.fails < MaxFailures}

\* the history after a call of _sift that returned code
Sifted(code) ==
  [g EXCEPT !.sifts = @ + 1,
            !.errs = IF code # EMD_SUCCESS THEN @ \cup {code} ELSE @,
            !.fails = IF code # EMD_SUCCESS THEN @ + 1 ELSE @]

\* allocate_eemd_workspace(N): the worker starts with a fresh workspace
FreshWorker == [NoWorker EXCEPT !.pc = "alloc"]

\* the team the runtime forms for a parallel region: the default number of
\* threads, unless the guard before the region lowered it
TeamSize ==
  IF OmpNumThreadsSequential > p.ensemble_size THEN p.ensemble_size
  ELSE p.omp_threads

\* if (N == 0) { return EMD_SUCCESS; } of eemd and ceemdan: the test
MutEmptyInputNotChecked(N) == FALSE

EmptyInput(N) == N = 0

\* ---------------------------------------------------------------- eemd
\* noise_sigma of eemd
EemdNoiseSigma ==
  IF p.noise_strength # 0
  THEN RMul(gsl_stats_sd(p.input, p.N), Rat(p.noise_strength))
  ELSE Rat(0)

\* eemd up to the parallel block: validation, N == 0, default M, memset
eemd_enter ==
  /\ pc = "call" /\ p.fn = "eemd"
  /\ LET v == _validate_eemd_parameters(p.ensemble_size, p.noise_strength,
                                        p.S_number, p.num_siftings)
         m == IF p.M = 0 THEN emd_num_imfs(SizeT(p.N)) ELSE p.M
     IN  IF v # EMD_SUCCESS
         THEN Return(v) /\ UNCHANGED <<M, output, touched>>
         ELSE IF EmptyInput(p.N)
         THEN Return(EMD_SUCCESS) /\ UNCHANGED <<M, output, touched>>
         ELSE /\ M' = m
              /\ output' = [k \in DOMAIN output |->
                              IF k < m * p.N THEN Rat(0) ELSE output[k]]
              /\ touched' = touched \cup Idx(m * p.N)
              /\ pc' = "eemd_fork"
              /\ ret' = ret
  /\ UNCHANGED <<p, err, locks, heap, num_threads, wk, taken, imf_i, res,
                 noises, noise_residuals, g>>

\* start of the parallel block with its omp single: ws and the M locks
eemd_fork ==
  /\ pc = "eemd_fork"
  /\ num_threads' = TeamSize
  /\ heap' = Malloc(heap, {<<"ws", 0>>, <<"locks", 0>>}
                          \cup {<<"lock", i>> : i \in Idx(M)})
  /\ locks' = [i \in Idx(M) |-> -1]
  /\ wk' = [t \in Threads |-> IF t < TeamSize THEN FreshWorker ELSE NoWorker]
  /\ taken' = {}
  /\ g' = [g EXCEPT !.started = @ + TeamSize]
  /\ pc' = "eemd_join"
  /\ UNCHANGED <<p, ret, M, output, touched, err, imf_i, res, noises,
                 noise_residuals>>

\* ws[thread_id] = allocate_eemd_workspace(N)
eemd_alloc(t) ==
  /\ p.fn = "eemd" /\ Worker(t, "alloc")
  /\ heap' = Malloc(heap, {<<"eemd_workspace", t>>})
  /\ wk' = [wk EXCEPT ![t].pc = "for", ![t].r = gsl_rng_set(DefaultSeed)]
  /\ UNCHANGED <<p, pc, ret, M, output, touched, err, locks, num_threads,
                 taken, imf_i, res, noises, noise_residuals, g>>

\* one iteration of the omp for is handed to thread t: the poll of emd_err,
\* the ensemble member input + noise, and the entry of _emd
eemd_member(t, en_i) ==
  /\ p.fn = "eemd" /\ Worker(t, "for")
  /\ en_i \in Members \ taken
  /\ taken' = taken \cup {en_i}
  /\ IF err # EMD_SUCCESS
     THEN /\ g' = [g EXCEPT !.skipped = @ \cup {en_i}]
          /\ wk' = wk
     ELSE LET r0 == IF p.noise_strength = 0 THEN wk[t].r
                    ELSE set_rng_seed(wk[t].r, p.rng_seed + en_i)
              x  == IF p.noise_strength = 0 THEN array_copy(p.input, p.N)
                    ELSE [i \in Idx(p.N) |->
                            RAdd(p.input[i],
                                 gsl_ran_gaussian(Drawn(r0, i), EemdNoiseSigma))]
              r1 == IF p.noise_strength = 0 THEN r0 ELSE Drawn(r0, p.N)
          IN  /\ wk' = [wk EXCEPT ![t] =
                         [pc |-> IF 0 < M - 1 THEN "sift" ELSE "get_lock",
                          en_i |-> en_i, imf_i |-> 0, x |-> x,
                          res |-> array_copy(x, p.N), r |-> r1,
                          rv |-> EMD_SUCCESS]]
              /\ g' = IF p.noise_strength = 0 THEN g
                      ELSE [g EXCEPT !.drawn = (en_i :> [i \in Idx(p.N) |->
                                  Normal(r0.seed, r0.pos + i)]) @@ @]
  /\ UNCHANGED <<p, pc, ret, M, output, touched, err, locks, heap,
                 num_threads, imf_i, res, noises, noise_residuals>>

\* _emd, one pass of the mode loop up to the lock: restore the residual,
\* _sift, and on success res -= input
emd_sift(t) ==
  /\ p.fn = "eemd" /\ Worker(t, "sift")
  /\ LET w  == wk[t]
         in == IF w.imf_i # 0 THEN array_copy(w.res, p.N) ELSE w.x
     IN  \E o \in SiftCall(in) :
           /\ g' = Sifted(o.err)
           /\ IF o.err # EMD_SUCCESS
              THEN wk' = [wk EXCEPT ![t].pc = "store", ![t].rv = o.err,
                                    ![t].x = Uninit, ![t].res = Uninit]
              ELSE wk' = [wk EXCEPT ![t].pc = "get_lock", ![t].x = o.x,
                                    ![t].res = array_sub(o.x, p.N, w.res)]
  /\ UNCHANGED <<p, pc, ret, M, output, touched, err, locks, heap,
                 num_threads, taken, imf_i, res, noises, noise_residuals>>

\* get_lock(locks[imf_i]) and get_lock(locks[M-1])
MutGetLockDoesNotWait(t) ==
  /\ p.fn = "eemd" /\ Worker(t, "get_lock")
  /\ locks' = [locks EXCEPT ![wk[t].imf_i] = t]
  /\ wk' = [wk EXCEPT ![t].pc = "add"]
  /\ UNCHANGED <<p, pc, ret, M, output, touched, err, heap, num_threads,
                 taken, imf_i, res, noises, noise_residuals, g>>

emd_get_lock(t) ==
  /\ p.fn = "eemd" /\ Worker(t, "get_lock")
  /\ locks[wk[t].imf_i] = -1
  /\ locks' = [locks EXCEPT ![wk[t].imf_i] = t]
  /\ wk' = [wk EXCEPT ![t].pc = "add"]
  /\ UNCHANGED <<p, pc, ret, M, output, touched, err, heap, num_threads,
                 taken, imf_i, res, noises, noise_residuals, g>>

\* array_add into the row and release_lock: the IMF inside the mode loop,
\* the residual after it (then _emd returns EMD_SUCCESS)
emd_add(t) ==
  /\ p.fn = "eemd" /\ Worker(t, "add")
  /\ LET w    == wk[t]
         last == ~(w.imf_i < M - 1)
         src  == IF last THEN w.res ELSE w.x
         off  == p.N * w.imf_i
     IN  /\ output' = PutRow(output, off, p.N,
                             array_add(src, p.N, Row(output, off, p.N)))
         /\ touched' = touched \cup RowIdx(off, p.N)
         /\ locks' = [locks EXCEPT ![w.imf_i] = -1]
         /\ g' = [g EXCEPT !.added = @ \cup {<<w.en_i, w.imf_i, src>>},
                           !.nadds = @ + 1]
         /\ wk' = [wk EXCEPT ![t] =
                     IF last
                     THEN [w EXCEPT !.pc = "store", !.rv = EMD_SUCCESS,
                                    !.x = Uninit, !.res = Uninit]
                     ELSE [w EXCEPT !.imf_i = w.imf_i + 1,
                                    !.pc = IF w.imf_i + 1 < M - 1 THEN "sift"
                                           ELSE "get_lock"]]
  /\ UNCHANGED <<p, pc, ret, M, err, heap, num_threads, taken, imf_i, res,
                 noises, noise_residuals>>

\* emd_err = _emd(...): the value _emd returned is stored in the shared flag
eemd_store(t) ==
  /\ p.fn = "eemd" /\ Worker(t, "store")
  /\ err' = wk[t].rv
  /\ wk' = [wk EXCEPT ![t].pc = "for", ![t].en_i = -1, ![t].imf_i = 0,
                       ![t].rv = EMD_SUCCESS]
  /\ UNCHANGED <<p, pc, ret, M, output, touched, locks, heap, num_threads,
                 taken, imf_i, res, noises, noise_residuals, g>>

\* the omp for has no iteration left for thread t: it waits at the barrier
omp_for_end(t) ==
  /\ Worker(t, "for")
  /\ taken = Members
  /\ wk' = [wk EXCEPT ![t].pc = "barrier"]
  /\ UNCHANGED <<p, pc, ret, M, output, touched, err, locks, heap,
                 num_threads, taken, imf_i, res, noises, noise_residuals, g>>

\* past the barrier: free_eemd_workspace(w)
eemd_free(t) ==
  /\ p.fn = "eemd" /\ Worker(t, "barrier")
  /\ \A u \in Team : wk[u].pc \in {"barrier", "done"}
  /\ heap' = Free(heap, {<<"eemd_workspace", t>>})
  /\ wk' = [wk EXCEPT ![t].pc = "done"]
  /\ UNCHANGED <<p, pc, ret, M, output, touched, err, locks, num_threads,
                 taken, imf_i, res, noises, noise_residuals, g>>

\* the closing omp single (ws and the locks are freed), the end of the
\* parallel block, and the rest of eemd
eemd_join ==
  /\ pc = "eemd_join"
  /\ \A t \in Team : wk[t].pc = "done"
  /\ heap' = Free(heap, {<<"ws", 0>>, <<"locks", 0>>}
                        \cup {<<"lock", i>> : i \in Idx(M)})
  /\ locks' = <<>>
  /\ wk' = [t \in Threads |-> NoWorker]
  /\ IF err # EMD_SUCCESS
     THEN Return(err) /\ output' = output
     ELSE /\ Return(EMD_SUCCESS)
          /\ output' = IF p.ensemble_size # 1
                       THEN array_mult(output, p.N * M,
                                       <<1, p.ensemble_size>>)
                       ELSE output
  /\ UNCHANGED <<p, M, touched, err, num_threads, taken, imf_i, res, noises,
                 noise_residuals, g>>

\* ------------------------------------------------------------- ceemdan
\* ceemdan up to the first parallel block: validation, N == 0, M == 1,
\* default M, memset, the output lock and the two noise matrices
ceemdan_enter ==
  /\ pc = "call" /\ p.fn = "ceemdan"
  /\ LET v == _validate_eemd_parameters(p.ensemble_size, p.noise_strength,
                                        p.S_number, p.num_siftings)
         m == IF p.M = 0 THEN emd_num_imfs(SizeT(p.N)) ELSE p.M
     IN  IF v # EMD_SUCCESS
         THEN /\ Return(v)
              /\ UNCHANGED <<M, output, touched, locks, heap>>
         ELSE IF EmptyInput(p.N)
         THEN /\ Return(EMD_SUCCESS)
              /\ UNCHANGED <<M, output, touched, locks, heap>>
         ELSE IF p.M = 1
         THEN /\ Return(EMD_SUCCESS)
              /\ output' = PutRow(output, 0, p.N, p.input)
              /\ touched' = touched \cup Idx(p.N)
              /\ UNCHANGED <<M, locks, heap>>
         ELSE /\ M' = m
              /\ output' = [k \in DOMAIN output |->
                              IF k < m * p.N THEN Rat(0) ELSE output[k]]
              /\ touched' = touched \cup Idx(m * p.N)
              /\ heap' = Malloc(heap, {<<"output_lock", 0>>, <<"noises", 0>>,
                                       <<"noise_residuals", 0>>})
              /\ locks' = [i \in {0} |-> -1]
              /\ pc' = "ceemdan_fork"
              /\ ret' = ret
  /\ UNCHANGED <<p, err, num_threads, wk, taken, imf_i, res, noises,
                 noise_residuals, g>>

\* start of the first parallel block with its omp single: ws
ceemdan_fork ==
  /\ pc = "ceemdan_fork"
  /\ num_threads' = TeamSize
  /\ heap' = Malloc(heap, {<<"ws", 0>>})
  /\ wk' = [t \in Threads |-> IF t < TeamSize THEN FreshWorker ELSE NoWorker]
  /\ taken' = {}
  /\ g' = [g EXCEPT !.started = @ + TeamSize]
  /\ pc' = "ceemdan_join"
  /\ UNCHANGED <<p, ret, M, output, touched, err, locks, imf_i, res, noises,
                 noise_residuals>>

\* ws[thread_id] = allocate_eemd_workspace(N)
ceemdan_alloc(t) ==
  /\ p.fn = "ceemdan" /\ Worker(t, "alloc")
  /\ heap' = Malloc(heap, {<<"eemd_workspace", t>>})
  /\ wk' = [wk EXCEPT ![t].pc = "noise", ![t].r = gsl_rng_set(DefaultSeed)]
  /\ UNCHANGED <<p, pc, ret, M, output, touched, err, locks, num_threads,
                 taken, imf_i, res, noises, noise_residuals, g>>

\* one iteration of the first omp for: the noise of member en_i
ceemdan_noise(t, en_i) ==
  /\ p.fn = "ceemdan" /\ Worker(t, "noise")
  /\ en_i \in Members \ taken
  /\ taken' = taken \cup {en_i}
  /\ LET r0 == set_rng_seed(wk[t].r, p.rng_seed + en_i)
     IN  /\ noises' = (en_i :> [j \in Idx(p.N) |->
                                  gsl_ran_gaussian(Drawn(r0, j), Rat(1))])
                      @@ noises
         /\ wk' = [wk EXCEPT ![t].r = Drawn(r0, p.N)]
         /\ g' = [g EXCEPT !.drawn = (en_i :> [j \in Idx(p.N) |->
                                   Normal(r0.seed, r0.pos + j)]) @@ @]
  /\ UNCHANGED <<p, pc, ret, M, output, touched, err, locks, heap,
                 num_threads, imf_i, res, noise_residuals>>

\* the first omp for has no iteration left for thread t
ceemdan_noise_end(t) ==
  /\ p.fn = "ceemdan" /\ Worker(t, "noise")
  /\ taken = Members
  /\ wk' = [wk EXCEPT ![t].pc = "barrier"]
  /\ UNCHANGED <<p, pc, ret, M, output, touched, err, locks, heap,
                 num_threads, taken, imf_i, res, noises, noise_residuals, g>>

\* end of the first parallel block; res = malloc, res = input.  ceemdan
\* does not use the generators again, their state is dropped here.
ceemdan_join ==
  /\ pc = "ceemdan_join"
  /\ \A t \in Team : wk[t].pc = "barrier"
  /\ wk' = [t \in Threads |-> IF t \in Team
                              THEN [wk[t] EXCEPT !.pc = "idle", !.r = Uninit]
                              ELSE wk[t]]
  /\ heap' = Malloc(heap, {<<"res", 0>>})
  /\ res' = array_copy(p.input, p.N)
  /\ imf_i' = 0
  /\ pc' = "ceemdan_mode"
  /\ UNCHANGED <<p, ret, M, output, touched, err, locks, num_threads, taken,
                 noises, noise_residuals, g>>

\* head of the mode loop: the parallel block of mode imf_i starts with
\* sift_err = EMD_SUCCESS
ceemdan_mode ==
  /\ pc = "ceemdan_mode"
  /\ imf_i < M
  /\ err' = EMD_SUCCESS
  /\ wk' = [t \in Threads |-> IF t \in Team THEN [wk[t] EXCEPT !.pc = "for"]
                              ELSE wk[t]]
  /\ taken' = {}
  /\ g' = [g EXCEPT !.started = @ + num_threads]
  /\ pc' = "ceemdan_mode_join"
  /\ UNCHANGED <<p, ret, M, output, touched, locks, heap, num_threads, imf_i,
                 res, noises, noise_residuals>>

\* one iteration of the omp for of a mode is handed to thread t: the poll
\* of sift_err and the ensemble member res + noise_sigma*noise
ceemdan_member(t, en_i) ==
  /\ p.fn = "ceemdan" /\ Worker(t, "for")
  /\ en_i \in Members \ taken
  /\ taken' = taken \cup {en_i}
  /\ IF err # EMD_SUCCESS
     THEN /\ g' = [g EXCEPT !.skipped = @ \cup {en_i}]
          /\ wk' = wk
     ELSE LET noise == noises[en_i]
              noise_sd == gsl_stats_sd(noise, p.N)
              noise_sigma ==
                IF noise_sd # Rat(0)
                THEN RDiv(RMul(Rat(p.noise_strength),
                               gsl_stats_sd(res, p.N)), noise_sd)
                ELSE Rat(0)
          IN  /\ wk' = [wk EXCEPT ![t].pc = "sift", ![t].en_i = en_i,
                          ![t].x = array_addmul_to(res, noise, noise_sigma,
                                                   p.N)]
              /\ g' = g
  /\ UNCHANGED <<p, pc, ret, M, output, touched, err, locks, heap,
                 num_threads, imf_i, res, noises, noise_residuals>>

\* what a read of noise_residuals[N*en_i ..] yields: what was stored there,
\* or, for memory no iteration has written since malloc, any content
NoiseResidual(en_i) ==
  IF en_i \in DOMAIN noise_residuals THEN {noise_residuals[en_i]}
  ELSE {[i \in Idx(p.N) |-> v] : v \in {Rat(0), Garbage}}

\* sift_err = _sift(w->x, ...)
ceemdan_sift(t) ==
  /\ p.fn = "ceemdan" /\ Worker(t, "sift")
  /\ \E o \in SiftCall(wk[t].x) :
       /\ err' = o.err
       /\ wk' = [wk EXCEPT ![t].pc = "get_lock", ![t].x = o.x]
       /\ g' = Sifted(o.err)
  /\ UNCHANGED <<p, pc, ret, M, output, touched, locks, heap, num_threads,
                 taken, imf_i, res, noises, noise_residuals>>

\* get_lock(output_lock)
ceemdan_get_lock(t) ==
  /\ p.fn = "ceemdan" /\ Worker(t, "get_lock")
  /\ locks[0] = -1
  /\ locks' = [locks EXCEPT ![0] = t]
  /\ wk' = [wk EXCEPT ![t].pc = "add"]
  /\ UNCHANGED <<p, pc, ret, M, output, touched, err, heap, num_threads,
                 taken, imf_i, res, noises, noise_residuals, g>>

\* array_add(w->x, N, imf); release_lock(output_lock)
ceemdan_add(t) ==
  /\ p.fn = "ceemdan" /\ Worker(t, "add")
  /\ LET off == imf_i * p.N
     IN  /\ output' = PutRow(output, off, p.N,
                             array_add(wk[t].x, p.N, Row(output, off, p.N)))
         /\ touched' = touched \cup RowIdx(off, p.N)
         /\ g' = [g EXCEPT !.added = @ \cup {<<wk[t].en_i, imf_i, wk[t].x>>},
                           !.nadds = @ + 1]
  /\ locks' = [locks EXCEPT ![0] = -1]
  /\ wk' = [wk EXCEPT ![t].pc = "noise_sift", ![t].x = Uninit]
  /\ UNCHANGED <<p, pc, ret, M, err, heap, num_threads, taken, imf_i, res,
                 noises, noise_residuals>>

\* the next EMD mode of the member's noise: the copy between noise and
\* noise_residual, sift_err = _sift(noise, ...), noise_residual -= noise
ceemdan_noise_sift(t) ==
  /\ p.fn = "ceemdan" /\ Worker(t, "noise_sift")
  /\ LET en_i == wk[t].en_i
     IN  \E old \in NoiseResidual(en_i) :
           LET nr0 == IF imf_i = 0 THEN array_copy(noises[en_i], p.N) ELSE old
               n0  == IF imf_i = 0 THEN noises[en_i]
                      ELSE array_copy(old, p.N)
           IN  \E o \in SiftCall(n0) :
                 /\ err' = o.err
                 /\ noises' = [noises EXCEPT ![en_i] = o.x]
                 /\ noise_residuals' = (en_i :> array_sub(o.x, p.N, nr0))
                                       @@ noise_residuals
                 /\ g' = Sifted(o.err)
  /\ wk' = [wk EXCEPT ![t].pc = "for", ![t].en_i = -1]
  /\ UNCHANGED <<p, pc, ret, M, output, touched, locks, heap, num_threads,
                 taken, imf_i, res>>

\* end of the parallel block of a mode and the rest of the loop body: the
\* return on sift_err, the average, the new residual
ceemdan_mode_join ==
  /\ pc = "ceemdan_mode_join"
  /\ \A t \in Team : wk[t].pc = "barrier"
  /\ wk' = [t \in Threads |-> IF t \in Team THEN [wk[t] EXCEPT !.pc = "idle"]
                              ELSE wk[t]]
  /\ IF err # EMD_SUCCESS
     THEN /\ Return(err)
          /\ UNCHANGED <<output, res, imf_i>>
     ELSE LET off == imf_i * p.N
              imf == array_mult(Row(output, off, p.N), p.N,
                                <<1, p.ensemble_size>>)
          IN  /\ output' = PutRow(output, off, p.N, imf)
              /\ res' = array_sub(imf, p.N, res)
              /\ imf_i' = imf_i + 1
              /\ pc' = "ceemdan_mode"
              /\ ret' = ret
  /\ UNCHANGED <<p, M, touched, err, locks, heap, num_threads, taken, noises,
                 noise_residuals, g>>

\* after the mode loop: the final residual is added to the last row, the
\* global resources are freed
ceemdan_finish ==
  /\ pc = "ceemdan_mode"
  /\ ~(imf_i < M)
  /\ LET off == p.N * (M - 1)
     IN  /\ output' = PutRow(output, off, p.N,
                             array_add(res, p.N, Row(output, off, p.N)))
         /\ touched' = touched \cup RowIdx(off, p.N)
  /\ heap' = Free(heap, {<<"eemd_workspace", t>> : t \in Team}
                        \cup {<<"ws", 0>>, <<"res", 0>>,
                              <<"noise_residuals", 0>>, <<"noises", 0>>,
                              <<"output_lock", 0>>})
  /\ locks' = <<>>
  /\ wk' = [t \in Threads |-> NoWorker]
  /\ Return(EMD_SUCCESS)
  /\ UNCHANGED <<p, M, err, num_threads, taken, imf_i, res, noises,
                 noise_residuals, g>>

Next ==
  \/ eemd_enter
  \/ eemd_fork
  \/ \E t \in Threads : eemd_alloc(t)
  \/ \E t \in Threads : \E en_i \in 0 .. (MaxEnsemble - 1) : eemd_member(t, en_i)
  \/ \E t \in Threads : emd_sift(t)
  \/ \E t \in Threads : emd_get_lock(t)
  \/ \E t \in Threads : emd_add(t)
  \/ \E t \in Threads : eemd_store(t)
  \/ \E t \in Threads : omp_for_end(t)
  \/ \E t \in Threads : eemd_free(t)
  \/ eemd_join
  \/ ceemdan_enter
  \/ ceemdan_fork
  \/ \E t \in Threads : ceemdan_alloc(t)
  \/ \E t \in Threads : \E en_i \in 0 .. (MaxEnsemble - 1) : ceemdan_noise(t, en_i)
  \/ \E t \in Threads : ceemdan_noise_end(t)
  \/ ceemdan_join
  \/ ceemdan_mode
  \/ \E t \in Threads : \E en_i \in 0 .. (MaxEnsemble - 1) : ceemdan_member(t, en_i)
  \/ \E t \in Threads : ceemdan_sift(t)
  \/ \E t \in Threads : ceemdan_get_lock(t)
  \/ \E t \in Threads : ceemdan_add(t)
  \/ \E t \in Threads : ceemdan_noise_sift(t)
  \/ ceemdan_mode_join
  \/ ceemdan_finish

Spec == Init /\ [][Next]_vars

\* the steps of thread t at a lock: taking it, and the accumulation that
\* ends with its release
LockStep(t) ==
  \/ emd_get_lock(t)
  \/ emd_add(t)
  \/ ceemdan_get_lock(t)
  \/ ceemdan_add(t)

\* the threads are scheduled: a thread inside the accumulation finishes it,
\* and a thread in get_lock takes a lock that stays free
FairSpec == Spec /\ \A t \in Threads : WF_vars(LockStep(t))

\* ------------------------------------------------------------ properties
ValidationCodes ==
  {EMD_INVALID_ENSEMBLE_SIZE, EMD_INVALID_NOISE_STRENGTH,
   EMD_NOISE_ADDED_TO_EMD, EMD_NO_NOISE_ADDED_TO_EEMD,
   EMD_NO_CONVERGENCE_POSSIBLE}

\* the code of the first rule of the validation table that matches the
\* call, "none" when no rule matches
FirstRule ==
  IF p.ensemble_size = 0 THEN EMD_INVALID_ENSEMBLE_SIZE
  ELSE IF p.noise_strength < 0 THEN EMD_INVALID_NOISE_STRENGTH
  ELSE IF p.ensemble_size = 1 /\ p.noise_strength > 0
  THEN EMD_NOISE_ADDED_TO_EMD
  ELSE IF p.ensemble_size > 1 /\ p.noise_strength = 0
  THEN EMD_NO_NOISE_ADDED_TO_EEMD
  ELSE IF p.S_number = 0 /\ p.num_siftings = 0
  THEN EMD_NO_CONVERGENCE_POSSIBLE
  ELSE "none"

\* the output buffer is as the caller handed it over
OutputUnmodified ==
  /\ touched = {}
  /\ \A k \in DOMAIN output : output[k] = Garbage

\* C1: eemd and ceemdan validate before any other work and return the code
\* of the first matching rule of the table (ensemble size, noise strength,
\* noise added to EMD, no noise added to EEMD, no convergence possible); a
\* validation code is returned if and only if a rule matches, and then the
\* output is unmodified, nothing was allocated and no worker was started.
C1_ValidationFirst ==
  /\ FirstRule # "none" =>
        /\ pc \in {"call", "ret"}
        /\ OutputUnmodified
        /\ heap = EmptyHeap
        /\ g.started = 0 /\ g.sifts = 0
        /\ pc = "ret" => ret = FirstRule
  /\ pc = "ret" => (ret \in ValidationCodes <=> FirstRule # "none")

\* a call that matches the second and the last rule has returned the code
\* of the second
C1_Witness ==
  /\ pc = "ret"
  /\ p.ensemble_size = 1 /\ p.noise_strength < 0
  /\ p.S_number = 0 /\ p.num_siftings = 0
  /\ ret = EMD_INVALID_NOISE_STRENGTH

\* C9: eemd and ceemdan called with N = 0 and parameters that pass the
\* validation return EMD_SUCCESS for every M, without writing any element
\* of output, without starting a worker and without a sift.
C9_EmptyInputIsNoOp ==
  (p.N = 0 /\ FirstRule = "none") =>
    /\ pc \in {"call", "ret"}
    /\ OutputUnmodified
    /\ heap = EmptyHeap
    /\ g.started = 0 /\ g.sifts = 0
    /\ pc = "ret" => ret = EMD_SUCCESS

\* ceemdan with N = 0, an ensemble and M = MaxM has returned EMD_SUCCESS
C9_Witness ==
  /\ pc = "ret" /\ ret = EMD_SUCCESS
  /\ p.fn = "ceemdan" /\ p.N = 0 /\ p.M = MaxM
  /\ p.ensemble_size = MaxEnsemble

\* ------------------------------------------------- sums and references
RECURSIVE RSumSeq(_, _)
\* v[0] + ... + v[n-1]
RSumSeq(v, n) == IF n = 0 THEN Rat(0) ELSE RAdd(RSumSeq(v, n - 1), v[n - 1])

\* sample j summed over the rows 0 .. m-1 of the flat matrix buf
ColumnSum(buf, j, m, n) == RSumSeq([i \in Idx(m) |-> buf[i * n + j]], m)

RECURSIVE VecSum(_, _)
\* the elementwise sum of the vectors of length n in vs, a set of pairs
\* <<member, vector>>
VecSum(vs, n) ==
  IF vs = {} THEN [j \in Idx(n) |-> Rat(0)]
  ELSE LET v == CHOOSE w \in vs : TRUE
           rest == VecSum(vs \ {v}, n)
       IN  [j \in Idx(n) |-> RAdd(rest[j], v[2][j])]

\* what the members added into row i, as logged
AddedTo(i) == {a \in g.added : a[2] = i}

\* (1/ensemble_size) * the sum of what the members added into row i
MeanOfAdded(i) ==
  LET sum == VecSum({<<a[1], a[3]>> : a \in AddedTo(i)}, p.N)
  IN  [j \in Idx(p.N) |-> RDiv(sum[j], Rat(p.ensemble_size))]

\* a sift failed and the function returned its code
SiftFailureReturned == pc = "ret" /\ ret \in SplineErrors

\* C2: if a member's EMD inside eemd returns a non-success code, eemd
\* returns a non-success code, the error observed, for every team and
\* interleaving; a member that succeeds later does not reset the flag.
C2_ErrorIsReturned ==
  (p.fn = "eemd" /\ pc = "ret" /\ g.errs # {}) => ret \in g.errs

\* C3: when eemd or ceemdan returns the code of a sift or spline failure,
\* no partial result is published: every element of the M rows still has
\* the zero it was initialised to at entry.
C3_NoPartialOutput ==
  SiftFailureReturned =>
    \A k \in Idx(M * p.N) : output[k] = Rat(0)

\* C4: on every return taken after the allocations, every workspace, lock,
\* noise and residual buffer of the call has been released exactly once.
C4_AllReleased ==
  (pc = "ret" /\ (heap.live \cup heap.freed) # {}) =>
    heap.live = {} /\ ~heap.bad

\* C5: after eemd returns EMD_SUCCESS with ensemble_size = 1 and
\* noise_strength = 0 on N >= 1 samples, for every sample j the sum of
\* output[i][j] over the M rows equals input[j], whatever the sifter did.
C5_EmdRowsSumToInput ==
  (p.fn = "eemd" /\ pc = "ret" /\ ret = EMD_SUCCESS /\ p.N >= 1
     /\ p.ensemble_size = 1 /\ p.noise_strength = 0) =>
    \A j \in Idx(p.N) : ColumnSum(output, j, M, p.N) = p.input[j]

\* plain EMD of the longest input into MaxM rows with a sifter that changes
\* the signal has returned EMD_SUCCESS
C5_Witness ==
  /\ p.fn = "eemd" /\ pc = "ret" /\ ret = EMD_SUCCESS
  /\ p.ensemble_size = 1 /\ p.noise_strength = 0
  /\ p.N = MaxN /\ M = MaxM /\ p.sifter = MaxShift
  /\ g.sifts = MaxM - 1

\* the residual ceemdan is left with after the mode loop: the input minus
\* the M row means
FinalResidual ==
  [j \in Idx(p.N) |->
     RSub(p.input[j], RSumSeq([i \in Idx(M) |-> MeanOfAdded(i)[j]], M))]

EemdMember(en_i) ==
  IF p.noise_strength = 0 THEN p.input
  ELSE [j \in Idx(p.N) |->
          RAdd(p.input[j],
               RMul(EemdNoiseSigma, Rat(Normal(p.rng_seed + en_i, j))))]

RECURSIVE EmdResidual(_, _)
\* the residual of the EMD of x before mode i
EmdResidual(x, i) ==
  IF i = 0 THEN x
  ELSE LET before == EmdResidual(x, i - 1)
           imf    == [j \in Idx(p.N) |->
                        RSub(before[j], SiftEnvelope(p.sifter, p.N)[j])]
       IN  [j \in Idx(p.N) |-> RSub(before[j], imf[j])]

\* row i of the EMD of x into M rows: the IMF of mode i, the residual in
\* the last row
EmdRow(x, i) ==
  IF i = M - 1 THEN EmdResidual(x, i)
  ELSE [j \in Idx(p.N) |->
          RSub(EmdResidual(x, i)[j], SiftEnvelope(p.sifter, p.N)[j])]

\* C7: after eemd returns EMD_SUCCESS, output[i][j] is (1/ensemble_size)
\* times the sum over all members of row i of the member's EMD of input +
\* member noise; every member contributes exactly once to every row, for
\* every team and interleaving.
C7_EnsembleMean ==
  (p.fn = "eemd" /\ pc = "ret" /\ ret = EMD_SUCCESS /\ p.N >= 1) =>
    /\ \A i \in Idx(M) :
         /\ {a[1] : a \in AddedTo(i)} = Members
         /\ Cardinality(AddedTo(i)) = p.ensemble_size
         /\ \A a \in AddedTo(i) : a[3] = EmdRow(EemdMember(a[1]), i)
         /\ Row(output, i * p.N, p.N) = MeanOfAdded(i)
    /\ g.nadds = M * p.ensemble_size

\* the same, for the runs in which no sift failed
C7_EnsembleMeanOfCleanRuns == g.errs = {} => C7_EnsembleMean

\* C8: in eemd with noise and in ceemdan, the noise of member en_i is the
\* sequence of a generator freshly seeded with rng_seed + en_i: it depends
\* on (rng_seed, en_i) only, not on the worker, on the members the worker
\* ran before, or on the size of the team.
C8_NoisePerMember ==
  /\ \A en_i \in DOMAIN g.drawn :
       g.drawn[en_i] = [j \in Idx(p.N) |-> Normal(p.rng_seed + en_i, j)]
  /\ (p.fn = "ceemdan" /\ pc = "ceemdan_mode" /\ imf_i = 0) =>
       /\ DOMAIN g.drawn = Members
       /\ \A en_i \in Members :
            noises[en_i] = [j \in Idx(p.N) |->
                              Rat(Normal(p.rng_seed + en_i, j))]
  /\ (p.fn = "eemd" /\ pc = "ret" /\ p.noise_strength > 0 /\ g.errs = {}
        /\ FirstRule = "none" /\ p.N >= 1) =>
       DOMAIN g.drawn = Members

\* one worker of a team has drawn the noise of two members, with a seed
\* other than zero
C8_Witness ==
  /\ p.rng_seed > 0 /\ p.N = MaxN
  /\ \E t \in Threads :
       /\ wk[t].r # Uninit
       /\ wk[t].r.seed = p.rng_seed + 1
  /\ DOMAIN g.drawn = Members
  /\ Cardinality(Members) >= 2

\* a valid call of eemd or ceemdan on N >= 1 samples that asks for the
\* default number of rows
DefaultModesCall ==
  /\ p.fn \in {"eemd", "ceemdan"}
  /\ p.M = 0 /\ p.N >= 1
  /\ FirstRule = "none"

\* C11: for N >= 1, eemd or ceemdan called with M = 0 behaves like the call
\* with M = emd_num_imfs(N): only elements of the rows 0 .. emd_num_imfs(N)-1
\* are written, all of them on a successful return, and where
\* emd_num_imfs(N) is 1 ceemdan returns what ceemdan with M = 1 returns,
\* EMD_SUCCESS with the input copied into the only row.
C11_DefaultModes ==
  DefaultModesCall =>
    LET m == emd_num_imfs(SizeT(p.N))
    IN  /\ touched \subseteq Idx(m * p.N)
        /\ (pc = "ret" /\ ret = EMD_SUCCESS) => touched = Idx(m * p.N)
        /\ (p.fn = "ceemdan" /\ m = 1 /\ pc = "ret") =>
             /\ ret = EMD_SUCCESS
             /\ Row(output, 0, p.N) = p.input

\* the same for eemd alone, with the local M after the entry
C11_DefaultModesOfEemd ==
  p.fn = "eemd" =>
    /\ C11_DefaultModes
    /\ (DefaultModesCall /\ pc # "call") => M = emd_num_imfs(SizeT(p.N))

\* the same for the successful returns of ceemdan
C11_DefaultModesOfCleanRuns ==
  g.errs = {} => C11_DefaultModes

\* C13: when a _sift of ceemdan returns a non-success code, for a member's
\* perturbed signal or for its noise, ceemdan returns that code at the end
\* of the mode iteration in which it happened: no later mode is started,
\* with one worker or several, whatever the sifts after the failed one
\* return.
C13_CeemdanErrorIsReturned ==
  (p.fn = "ceemdan" /\ g.errs # {}) =>
    /\ pc \in {"ceemdan_mode_join", "ret"}
    /\ pc = "ret" => ret \in g.errs

\* the lock that guards the row worker t accumulates into: locks[imf_i] in
\* _emd, the output lock in ceemdan
LockOf(t) == IF p.fn = "eemd" THEN wk[t].imf_i ELSE 0

\* the workers inside the accumulation into a row
Accumulating == {t \in Team : wk[t].pc = "add"}

\* C14: in eemd and ceemdan no two workers accumulate into the same output
\* row at the same time: a worker accumulates into row i only while it
\* holds the lock of row i (eemd) or the output lock (ceemdan); it holds at
\* most one lock, and only during the accumulation, which ends with the
\* release, so no lock is held by a worker that waits for a lock or has
\* left the loop.
C14_RowLocks ==
  /\ \A t \in Accumulating : locks[LockOf(t)] = t
  /\ \A t, u \in Accumulating : LockOf(t) = LockOf(u) => t = u
  /\ \A i \in DOMAIN locks :
       locks[i] # -1 => locks[i] \in Accumulating /\ LockOf(locks[i]) = i

\* hence, when the threads are scheduled, every worker that waits for a
\* lock gets it
C14_NoWorkerWaitsForever ==
  \A t \in Threads : (wk[t].pc = "get_lock") ~> (wk[t].pc = "add")

\* a worker of eemd waits for the lock of the row another worker is
\* accumulating into
C14_Witness ==
  /\ p.fn = "eemd"
  /\ \E t, u \in Team :
       /\ wk[t].pc = "add" /\ wk[u].pc = "get_lock"
       /\ LockOf(t) = LockOf(u)
       /\ locks[LockOf(u)] = t

\* a sift has failed and every code a sift returned has reached the shared
\* flag (emd_err, sift_err): the error has been observed
ErrorObserved ==
  /\ g.errs # {}
  /\ \A t \in Team : ~(wk[t].pc = "store" /\ wk[t].rv # EMD_SUCCESS)

\* an iteration of the omp for over the members of eemd, or of a mode of
\* ceemdan, is handed to a worker
MemberBegins ==
  /\ pc \in {"eemd_join", "ceemdan_mode_join"}
  /\ taken' # taken /\ taken \subseteq taken'

\* C15: in eemd and ceemdan, once a worker has observed an error from a
\* sift, every ensemble member whose processing begins afterwards is
\* skipped at its entry poll: no noise is drawn for it, no sift is started
\* and nothing is written to the output, for every team and interleaving.
C15_LaterMembersAreSkipped ==
  [][(ErrorObserved /\ MemberBegins) =>
       /\ wk' = wk
       /\ g'.skipped = g.skipped \cup (taken' \ taken)
       /\ g'.drawn = g.drawn /\ g'.sifts = g.sifts
       /\ output' = output]_vars

\* the same while the shared flag holds the error
C15_MembersAreSkippedWhileFlagged ==
  [][(err # EMD_SUCCESS /\ MemberBegins) =>
       /\ wk' = wk
       /\ g'.skipped = g.skipped \cup (taken' \ taken)
       /\ g'.drawn = g.drawn /\ g'.sifts = g.sifts
       /\ output' = output]_vars

\* the workers that execute the parallel region
Executing == {t \in Threads : wk[t].pc # "none"}

\* C19: the number of workers that execute the parallel regions of eemd
\* and ceemdan never exceeds ensemble_size, whatever the default number of
\* threads of the runtime is.
C19_TeamCappedByEnsemble ==
  p.fn \in {"eemd", "ceemdan"} => Cardinality(Executing) <= p.ensemble_size

\* the team is the default team of the runtime, and no larger
C19_TeamIsTheDefaultTeam ==
  p.fn \in {"eemd", "ceemdan"} =>
    /\ Cardinality(Executing) <= p.omp_threads
    /\ pc \in {"eemd_join", "ceemdan_mode_join"} => Executing = 0 .. (p.omp_threads - 1)

\* the noise drawn for member en_i
OriginalNoise(en_i) == [j \in Idx(p.N) |-> Rat(Normal(p.rng_seed + en_i, j))]

\* what a successful sift leaves of the signal x: its first EMD mode
FirstMode(x) ==
  [j \in Idx(p.N) |-> RSub(x[j], SiftEnvelope(p.sifter, p.N)[j])]

\* the noise w minus its first k EMD modes, and its k-th EMD mode (k >= 1),
\* the first mode of what the k - 1 modes before it left
RECURSIVE NoiseLeft(_, _)
NoiseLeft(w, k) ==
  IF k = 0 THEN w
  ELSE LET left == NoiseLeft(w, k - 1)
       IN  [j \in Idx(p.N) |-> RSub(left[j], FirstMode(left)[j])]

NoiseMode(w, k) == FirstMode(NoiseLeft(w, k - 1))

\* C18: in a ceemdan run that has been successful so far, after the mode
\* iteration k (0-based) noise[en_i] is the (k+1)-th EMD mode of the
\* original noise of member en_i and noise_residual[en_i] is the original
\* noise minus its first k+1 modes, for every member en_i.
C18_NoiseModeRecurrence ==
  (p.fn = "ceemdan" /\ pc = "ceemdan_mode" /\ imf_i >= 1) =>
    \A en_i \in Members :
      /\ noises[en_i] = NoiseMode(OriginalNoise(en_i), imf_i)
      /\ en_i \in DOMAIN noise_residuals
      /\ noise_residuals[en_i] = NoiseLeft(OriginalNoise(en_i), imf_i)

\* the same for the runs in which no sift has failed
C18_NoiseModeRecurrenceOfCleanRuns ==
  g.errs = {} => C18_NoiseModeRecurrence

\* noise and noise_residual of a member change only in the step of the
\* worker that processes the member
C18_NoiseIsPrivate ==
  [][p.fn = "ceemdan" /\ pc = "ceemdan_mode_join" =>
       \A en_i \in Members :
         (noises'[en_i] # noises[en_i]
            \/ (en_i \in DOMAIN noise_residuals
                  /\ noise_residuals'[en_i] # noise_residuals[en_i])
            \/ (en_i \notin DOMAIN noise_residuals
                  /\ en_i \in DOMAIN noise_residuals')) =>
           \E t \in Team : wk[t].pc = "noise_sift" /\ wk[t].en_i = en_i]_vars

\* two modes of the noise of two members have been extracted
C18_SecondModeReached ==
  /\ p.fn = "ceemdan" /\ pc = "ceemdan_mode" /\ imf_i = 2
  /\ p.ensemble_size = 2 /\ p.sifter > 0 /\ g.errs = {}

\* ------------------------------------------------ emd_num_imfs, called
\* the size_t values 2^(k-1), 2^(k-1) + 1 and 2^k - 1 of k bits
PowerOfTwo(k) == [i \in 1 .. k |-> IF i = 1 THEN 1 ELSE 0]
PowerOfTwoPlusOne(k) == [i \in 1 .. k |-> IF i \in {1, k} THEN 1 ELSE 0]
AllOnes(k) == [i \in 1 .. k |-> 1]

\* 2^k - d on k bits, for 1 <= d <= 2^(k-1)
BelowPowerOfTwo(k, d) ==
  LET b == SizeT(d - 1)
  IN  [i \in 1 .. k |-> IF i <= k - Len(b) THEN 1 ELSE 1 - b[i - (k - Len(b))]]

\* the arguments: every small value, and the values around every power of
\* two a size_t can hold
NumImfsArgs ==
  {SizeT(n) : n \in 0 .. MaxArg}
  \cup {PowerOfTwo(k) : k \in 1 .. SIZE_BITS}
  \cup {PowerOfTwoPlusOne(k) : k \in 2 .. SIZE_BITS}
  \cup {AllOnes(k) : k \in 1 .. SIZE_BITS}
  \cup {BelowPowerOfTwo(k, d) : k \in (MaxArg + 1) .. SIZE_BITS, d \in 1 .. MaxArg}

InitNumImfs ==
  /\ p \in {[fn |-> "emd_num_imfs", N |-> b] : b \in NumImfsArgs}
  /\ pc = "call"
  /\ ret = "none"
  /\ M = 0
  /\ output = <<>>
  /\ touched = {}
  /\ err = EMD_SUCCESS
  /\ locks = <<>>
  /\ heap = EmptyHeap
  /\ num_threads = 0
  /\ wk = [t \in Threads |-> NoWorker]
  /\ taken = {}
  /\ imf_i = 0
  /\ res = Uninit
  /\ noises = <<>>
  /\ noise_residuals = <<>>
  /\ g = [started |-> 0, sifts |-> 0, drawn |-> <<>>, added |-> {},
          nadds |-> 0, errs |-> {}, fails |-> 0, skipped |-> {}]

\* the call of emd_num_imfs(N) returns
emd_num_imfs_call ==
  /\ pc = "call" /\ p.fn = "emd_num_imfs"
  /\ pc' = "ret"
  /\ ret' = emd_num_imfs(p.N)
  /\ UNCHANGED <<p, M, output, touched, err, locks, heap, num_threads, wk,
                 taken, imf_i, res, noises, noise_residuals, g>>

NextNumImfs == emd_num_imfs_call

SpecNumImfs == InitNumImfs /\ [][NextNumImfs]_vars

\* C10: emd_num_imfs(N) is 0 for N = 0, 1 for N in {1, 2, 3}, and
\* floor(log2(N)) for N >= 4, the k with 2^k <= N < 2^(k+1): the position of
\* the leading bit of N.
C10_NumImfs ==
  (p.fn = "emd_num_imfs" /\ pc = "ret") =>
    ret = (IF p.N = <<>> THEN 0
           ELSE IF Len(p.N) <= 2 THEN 1
           ELSE Len(p.N) - 1)

\* the same for the arguments below 2^48
C10_NumImfsOfShortArguments ==
  Len(p.N) <= DBL_MANT_DIG - LOG2_GAP_BITS => C10_NumImfs

\* ------------------------------------------------------------------ memd
\* A call of memd on N samples of D components.  The caller's buffer has
\* room for the M signals of N*D values.
MemdCalls ==
  UNION {{[fn |-> "memd", N |-> n, D |-> d,
           input |-> [i \in Idx(n * d) |-> Rat(2 * i + 3)], M |-> m,
           num_siftings |-> k, sifter |-> sifter, failure |-> LateFailure] :
            d \in 1 .. MaxD, m \in 0 .. MaxM, k \in 0 .. MaxSiftings,
            sifter \in 0 .. MaxShift} : n \in 0 .. MaxN}

\* the locals of memd: x and the counter of the sift loop
MemdLocals(x, sift_counter) == [x |-> x, sift_counter |-> sift_counter]

InitMemd ==
  /\ p \in MemdCalls
  /\ pc = "call"
  /\ ret = "none"
  /\ M = p.M
  /\ output = [k \in Idx(Rows(p.M, p.N) * p.N * p.D) |-> Garbage]
  /\ touched = {}
  /\ err = EMD_SUCCESS
  /\ locks = <<>>
  /\ heap = EmptyHeap
  /\ num_threads = 0
  /\ wk = MemdLocals(Uninit, 0)
  /\ taken = {}
  /\ imf_i = 0
  /\ res = Uninit
  /\ noises = <<>>
  /\ noise_residuals = <<>>
  /\ g = [started |-> 0, sifts |-> 0, drawn |-> <<>>, added |-> {},
          nadds |-> 0, errs |-> {}, fails |-> 0, skipped |-> {}]

\* memd up to its mode loop: default M, the copies x and res, the workspace
memd_enter ==
  /\ pc = "call" /\ p.fn = "memd"
  /\ M' = IF p.M = 0 THEN emd_num_imfs(SizeT(p.N)) ELSE p.M
  /\ err' = EMD_SUCCESS
  /\ heap' = Malloc(heap, {<<"x", 0>>, <<"res", 0>>,
                           <<"memd_sifting_workspace", 0>>})
  /\ wk' = MemdLocals(array_copy(p.input, p.N * p.D), 0)
  /\ res' = array_copy(p.input, p.N * p.D)
  /\ imf_i' = 0
  /\ pc' = "memd_mode"
  /\ UNCHANGED <<p, ret, output, touched, locks, num_threads, taken, noises,
                 noise_residuals, g>>

\* imf_i < M-1 in size_t: M - 1 is SIZE_MAX when M is 0
MemdMoreModes == IF M = 0 THEN TRUE ELSE imf_i < M - 1

\* head of the mode loop: the residual is restored into x
memd_mode ==
  /\ pc = "memd_mode"
  /\ MemdMoreModes
  /\ imf_i <= MaxM
  /\ wk' = MemdLocals(IF imf_i # 0 THEN array_copy(res, p.N * p.D) ELSE wk.x,
                      0)
  /\ pc' = "memd_sift"
  /\ UNCHANGED <<p, ret, M, output, touched, err, locks, heap, num_threads,
                 taken, imf_i, res, noises, noise_residuals, g>>

\* one pass of the sift loop: memd_err = _memd_sift_once(x, ...), which
\* returns a spline error before it changes x, or subtracts the mean; on
\* an error memd returns at once
memd_sift_once ==
  /\ pc = "memd_sift"
  /\ wk.sift_counter < p.num_siftings
  /\ \/ /\ err' = EMD_SUCCESS
        /\ wk' = MemdLocals(array_sub(SiftEnvelope(p.sifter, p.N * p.D),
                                      p.N * p.D, wk.x),
                            wk.sift_counter + 1)
        /\ g' = Sifted(EMD_SUCCESS)
        /\ UNCHANGED <<pc, ret>>
     \/ /\ g.fails < MaxFailures
        /\ err' = p.failure.code
        /\ g' = Sifted(p.failure.code)
        /\ Return(p.failure.code)
        /\ wk' = wk
  /\ UNCHANGED <<p, M, output, touched, locks, heap, num_threads, taken,
                 imf_i, res, noises, noise_residuals>>

\* after the sift loop: res -= x, and x is copied to output + N*imf_i
memd_imf ==
  /\ pc = "memd_sift"
  /\ ~(wk.sift_counter < p.num_siftings)
  /\ res' = array_sub(wk.x, p.N * p.D, res)
  /\ output' = PutRow(output, p.N * imf_i, p.N * p.D, wk.x)
  /\ touched' = touched \cup RowIdx(p.N * imf_i, p.N * p.D)
  /\ g' = [g EXCEPT !.added = @ \cup {<<0, imf_i, wk.x>>}, !.nadds = @ + 1]
  /\ imf_i' = imf_i + 1
  /\ pc' = "memd_mode"
  /\ UNCHANGED <<p, ret, M, err, locks, heap, num_threads, wk, taken, noises,
                 noise_residuals>>

\* after the mode loop: the residual is copied to output + N*(M-1), the
\* workspace, res and x are freed
memd_finish ==
  /\ pc = "memd_mode"
  /\ ~MemdMoreModes
  /\ output' = PutRow(output, p.N * (M - 1), p.N * p.D, res)
  /\ touched' = touched \cup RowIdx(p.N * (M - 1), p.N * p.D)
  /\ heap' = Free(heap, {<<"x", 0>>, <<"res", 0>>,
                         <<"memd_sifting_workspace", 0>>})
  /\ Return(err)
  /\ UNCHANGED <<p, M, err, locks, num_threads, wk, taken, imf_i, res,
                 noises, noise_residuals, g>>

NextMemd ==
  \/ memd_enter
  \/ memd_mode
  \/ memd_sift_once
  \/ memd_imf
  \/ memd_finish

SpecMemd == InitMemd /\ [][NextMemd]_vars

\* the IMF memd extracted in mode i, as logged when it was emitted
MemdImf(i) == (CHOOSE a \in g.added : a[2] = i)[3]

\* C12: after memd returns EMD_SUCCESS on N samples of D components with an
\* effective M >= 1, the output holds M rows of N*D values one after the
\* other: row i < M-1 is IMF i as it was extracted, row M-1 is the final
\* residual, and the elementwise sum of the rows is the input.
C12_MemdRows ==
  (p.fn = "memd" /\ pc = "ret" /\ ret = EMD_SUCCESS /\ M >= 1) =>
    LET n == p.N * p.D
    IN  /\ \A i \in Idx(M - 1) : Row(output, i * n, n) = MemdImf(i)
        /\ Row(output, (M - 1) * n, n) = res
        /\ \A j \in Idx(n) : ColumnSum(output, j, M, n) = p.input[j]

\* the same for signals of one component
C12_MemdRowsOfOneComponent ==
  p.D = 1 => C12_MemdRows

\* the passes of the mode loop memd has begun
MemdPasses == imf_i + (IF pc = "memd_sift" THEN 1 ELSE 0)

\* C20: the mode loop of memd runs exactly (effective M) - 1 times, each
\* pass makes exactly num_siftings sift-once steps, and with an effective
\* M of 0 or 1 memd makes no pass and no sift-once step, writes no IMF row
\* and returns.
C20_MemdLoopCount ==
  (p.fn = "memd" /\ pc # "call") =>
    LET passes == IF M = 0 THEN 0 ELSE M - 1
    IN  /\ MemdPasses <= passes
        /\ g.nadds = imf_i
        /\ g.sifts = imf_i * p.num_siftings
                       + (IF pc = "memd_sift" \/ g.fails > 0
                          THEN wk.sift_counter + g.fails ELSE 0)
        /\ wk.sift_counter <= p.num_siftings
        /\ (pc = "ret" /\ ret = EMD_SUCCESS) =>
             /\ imf_i = passes
             /\ g.sifts = passes * p.num_siftings
        /\ (pc = "memd_mode" /\ imf_i = passes) => ~MemdMoreModes
        /\ M <= 1 => g.sifts = 0 /\ g.added = {}

\* the same for an effective M of at least 1
C20_MemdLoopCountOfSomeModes ==
  M >= 1 => C20_MemdLoopCount

\* memd has made all its passes and all their sift-once steps
C20_MemdLoopCountReached ==
  /\ p.fn = "memd" /\ pc = "ret" /\ ret = EMD_SUCCESS
  /\ M = MaxM /\ p.num_siftings = MaxSiftings
  /\ g.sifts = (MaxM - 1) * MaxSiftings

\* ----------------------------------------------------------------- _sift
\* _sift, one loop iteration per step.  emd_find_extrema and
\* emd_evaluate_spline are outside the modelled files: the counts the
\* detector reports and the outcome of each spline fit are drawn from
\* small sets, the spline values are fixed stand-ins.

\* the value (int)(size_t)(-1) the counts start with
DummyCount == -1

\* what emd_find_extrema can report in the iteration number k: any counts,
\* or, for the detector "alternating", counts that never settle
DetectorCounts(k) ==
  IF p.detector = "alternating"
  THEN {[max |-> 2 + 2 * (k % 2), min |-> 2, zc |-> 0]}
  ELSE {[max |-> a, min |-> 2, zc |-> c] : a \in 2 .. MaxExtrema, c \in {0, 2}}

\* the iteration at which the debug build prints its warning
SIFT_WARNING == 10000

\* calls of _sift as eemd, ceemdan and _emd make them: S_number and
\* num_siftings are not both zero
SiftCalls ==
  {c \in [fn : {"_sift"}, N : {MaxN},
          input : {[i \in Idx(MaxN) |-> Rat(2 * i + 3)]},
          S_number : 0 .. MaxSNumber, num_siftings : 0 .. MaxSiftings,
          detector : {"free"}] :
     c.S_number # 0 \/ c.num_siftings # 0}
  \cup {[fn |-> "_sift", N |-> 1, input |-> [i \in Idx(1) |-> Rat(3)],
         S_number |-> MaxSNumber, num_siftings |-> 0,
         detector |-> "alternating"]}

\* the number of iterations the model follows a loop that has no cap
IterationCap ==
  IF p.detector = "alternating" THEN SIFT_WARNING + MaxIterations
  ELSE MaxIterations

\* the locals of _sift
SiftLocals(sift_counter, S_counter, num, prev, x) ==
  [sift_counter |-> sift_counter, S_counter |-> S_counter, num |-> num,
   prev |-> prev, x |-> x]

InitSift ==
  /\ p \in SiftCalls
  /\ pc = "call"
  /\ ret = "none"
  /\ M = 0
  /\ output = <<>>
  /\ touched = {}
  /\ err = EMD_SUCCESS
  /\ locks = <<>>
  /\ heap = EmptyHeap
  /\ num_threads = 0
  /\ wk = SiftLocals(0, 0, <<>>, <<>>, Uninit)
  /\ taken = {}
  /\ imf_i = 0
  /\ res = Uninit
  /\ noises = <<>>
  /\ noise_residuals = <<>>
  /\ g = [window |-> <<>>, subs |-> 0, how |-> "none"]

\* the counters and the dummy counts are initialised
sift_enter ==
  /\ pc = "call" /\ p.fn = "_sift"
  /\ LET dummy == [max |-> DummyCount, min |-> DummyCount, zc |-> DummyCount]
     IN  wk' = SiftLocals(0, 0, dummy, dummy, p.input)
  /\ pc' = "while"
  /\ UNCHANGED <<p, ret, M, output, touched, err, locks, heap, num_threads,
                 taken, imf_i, res, noises, noise_residuals, g>>

\* while (num_siftings == 0 || *sift_counter < num_siftings)
MutSiftContinuesOneMore(num_siftings, sift_counter) ==
  num_siftings = 0 \/ sift_counter <= num_siftings

SiftContinues(num_siftings, sift_counter) ==
  num_siftings = 0 \/ sift_counter < num_siftings

\* abs(max_diff) + abs(min_diff) + abs(zc_diff) <= 1
CountsStable(num, prev) ==
  Abs(num.max - prev.max) + Abs(num.min - prev.min) + Abs(num.zc - prev.zc) <= 1

\* S_counter after the comparison: S_counter++ or S_counter = 0
MutSCounterNotReset(S_counter, stable) ==
  IF stable THEN S_counter + 1 ELSE S_counter

SCounterNext(S_counter, stable) ==
  IF stable THEN S_counter + 1 ELSE 0

\* abs(num_min + num_max - 4 - num_zc) <= 1
CountsBalanced(num) == Abs(num.min + num.max - 4 - num.zc) <= 1

\* stand-ins for the splines emd_evaluate_spline writes on success
MaxSpline(n) == [i \in Idx(n) |-> Rat(i + 2)]
MinSpline(n) == [i \in Idx(n) |-> Rat(i)]

\* input[i] -= 0.5*(w->maxspline[i] + w->minspline[i])
SubtractEnvelopeMean(x, n) ==
  [i \in Idx(n) |-> RSub(x[i], RMul(<<1, 2>>, RAdd(MaxSpline(n)[i], MinSpline(n)[i])))]

\* the last S_number + 1 reports of the detector, the newest last
Window(w, num) ==
  LET all == Append(w, num)
  IN  IF Len(all) > p.S_number + 1 THEN SubSeq(all, 2, Len(all)) ELSE all

\* one iteration of the loop: the counter, the detector, the S-number
\* criterion, the two spline fits and the subtraction
sift_iteration ==
  /\ pc = "while"
  /\ SiftContinues(p.num_siftings, wk.sift_counter)
  /\ p.num_siftings # 0 \/ wk.sift_counter < IterationCap
  /\ \E num \in DetectorCounts(wk.sift_counter + 1) :
       LET k      == wk.sift_counter + 1
           prev   == wk.num
           stable == p.S_number # 0 /\ CountsStable(num, prev)
           S      == IF p.S_number # 0 THEN SCounterNext(wk.S_counter, stable)
                     ELSE wk.S_counter
           fires  == stable /\ S >= p.S_number /\ CountsBalanced(num)
           w      == Window(g.window, num)
       IN  IF fires
           THEN /\ wk' = SiftLocals(k, S, num, prev, wk.x)
                /\ g' = [g EXCEPT !.window = w, !.how = "criterion"]
                /\ Return(EMD_SUCCESS)
           ELSE \/ /\ wk' = SiftLocals(k, S, num, prev,
                                       SubtractEnvelopeMean(wk.x, p.N))
                   /\ g' = [g EXCEPT !.window = w, !.subs = @ + 1]
                   /\ UNCHANGED <<pc, ret>>
                \/ \E e \in SplineErrors :
                     /\ wk' = SiftLocals(k, S, num, prev, wk.x)
                     /\ g' = [g EXCEPT !.window = w, !.how = "spline"]
                     /\ Return(e)
  /\ UNCHANGED <<p, M, output, touched, err, locks, heap, num_threads, taken,
                 imf_i, res, noises, noise_residuals>>

\* the loop condition is false: return EMD_SUCCESS
sift_exit ==
  /\ pc = "while"
  /\ ~SiftContinues(p.num_siftings, wk.sift_counter)
  /\ g' = [g EXCEPT !.how = "count"]
  /\ Return(EMD_SUCCESS)
  /\ UNCHANGED <<p, M, output, touched, err, locks, heap, num_threads, wk,
                 taken, imf_i, res, noises, noise_residuals>>

NextSift ==
  \/ sift_enter
  \/ sift_iteration
  \/ sift_exit

SpecSift == InitSift /\ [][NextSift]_vars

\* the signal after j subtractions of the envelope mean
SiftedTimes(j) ==
  [i \in Idx(p.N) |-> RSub(p.input[i], RMul(Rat(j), Rat(i + 1)))]

C16_PastTheWarning ==
  /\ p.fn = "_sift" /\ p.num_siftings = 0 /\ pc = "while"
  /\ wk.sift_counter > SIFT_WARNING

\* the change of the three counts between two reports of the detector
CountChange(a, b) ==
  Abs(a.max - b.max) + Abs(a.min - b.min) + Abs(a.zc - b.zc)

\* the last S_number iterations each changed the counts by at most one
\* against the iteration before, and the newest counts are balanced
CriterionMet ==
  /\ Len(g.window) = p.S_number + 1
  /\ \A j \in 2 .. Len(g.window) : CountChange(g.window[j], g.window[j - 1]) <= 1
  /\ LET last == g.window[Len(g.window)]
     IN  Abs(last.max + last.min - 4 - last.zc) <= 1

\* C17: with S_number = s > 0, _sift returns through the S-number
\* criterion at iteration k exactly when each of the s iterations ending
\* at k changed the counts by at most one in sum against the iteration
\* before it and the counts of iteration k are balanced; the first
\* iteration is never stable, the earliest such return is at iteration
\* s + 1, and the iteration that fires leaves the signal as it was.
C17_SNumberCriterion ==
  (p.fn = "_sift" /\ p.S_number > 0 /\ pc # "call" /\ wk.sift_counter >= 1) =>
    /\ (pc = "ret" /\ g.how = "criterion") <=> CriterionMet
    /\ wk.sift_counter = 1 => wk.S_counter = 0
    /\ g.how = "criterion" =>
         /\ wk.sift_counter >= p.S_number + 1
         /\ ret = EMD_SUCCESS
         /\ g.subs = wk.sift_counter - 1
         /\ wk.x = SiftedTimes(wk.sift_counter - 1)

\* the criterion fires at the earliest iteration, after the counts had
\* been unbalanced once
C17_Witness ==
  /\ p.fn = "_sift" /\ pc = "ret" /\ g.how = "criterion"
  /\ p.S_number = MaxSNumber /\ wk.sift_counter = MaxSNumber + 1
  /\ wk.x # p.input

C17_WitnessLate ==
  /\ p.fn = "_sift" /\ pc = "ret" /\ g.how = "criterion"
  /\ p.S_number = 1 /\ wk.sift_counter > 2 /\ wk.S_counter > 1

\* ------------------------------------------------- error reporting
\* emd_report_to_file_if_error and emd_error_string of error.c.  strcpy
\* is followed byte by byte: a byte written at an index outside of the
\* allocated buffer is a write the language leaves undefined, after which
\* the run goes on with clobbered memory or stops.

\* char* err_string = malloc(64 * sizeof(char))
ERR_STRING_SIZE == 64

\* the codes the switch of emd_error_string names, besides EMD_SUCCESS
EMD_GSL_ERROR == "EMD_GSL_ERROR"
EMD_NO_CONVERGENCE_IN_SIFTING == "EMD_NO_CONVERGENCE_IN_SIFTING"

KnownCodes ==
  {EMD_INVALID_ENSEMBLE_SIZE, EMD_INVALID_NOISE_STRENGTH,
   EMD_NOISE_ADDED_TO_EMD, EMD_NO_NOISE_ADDED_TO_EEMD,
   EMD_NO_CONVERGENCE_POSSIBLE, EMD_NOT_ENOUGH_POINTS_FOR_SPLINE,
   EMD_INVALID_SPLINE_POINTS, EMD_GSL_ERROR, EMD_NO_CONVERGENCE_IN_SIFTING}

\* values of the enumeration type that are none of its constants
UnknownCodes == {"(libeemd_error_code)(-1)", "(libeemd_error_code)99"}

\* the string literal emd_error_string copies for an error code
ErrorMessage(code) ==
  CASE code = EMD_INVALID_ENSEMBLE_SIZE ->
         "Invalid ensemble size (zero or negative)"
    [] code = EMD_INVALID_NOISE_STRENGTH ->
         "Invalid noise strength (negative)"
    [] code = EMD_NOISE_ADDED_TO_EMD ->
         "Positive noise strength but ensemble size is one (regular EMD)"
    [] code = EMD_NO_NOISE_ADDED_TO_EEMD ->
         "Ensemble size is more than one (EEMD) but noise strength is zero"
    [] code = EMD_NO_CONVERGENCE_POSSIBLE ->
         "Stopping criteria invalid: would never converge"
    [] code = EMD_NOT_ENOUGH_POINTS_FOR_SPLINE ->
         "Spline evaluation tried with insufficient points"
    [] code = EMD_INVALID_SPLINE_POINTS ->
         "Spline evaluation points invalid"
    [] code = EMD_GSL_ERROR ->
         "Error reported by GSL library"
    [] code = EMD_NO_CONVERGENCE_IN_SIFTING ->
         "Convergence not reached after sifting 10000 times"
    [] OTHER ->
         "Error code with unknown meaning. Please file a bug!"

\* the bytes strcpy writes for a string: its characters and the NUL
StrcpyBytes(str) == Len(str) + 1

ReportCalls ==
  {[fn |-> "emd_report_to_file_if_error", err |-> e] :
     e \in {EMD_SUCCESS} \cup KnownCodes \cup UnknownCodes}

\* the locals: the index strcpy writes next, the bytes of err_string
\* written so far that lie inside the buffer
ReportLocals(i, written) == [i |-> i, written |-> written]

InitReport ==
  /\ p \in ReportCalls
  /\ pc = "call"
  /\ ret = "none"
  /\ M = 0
  /\ output = <<>>
  /\ touched = {}
  /\ err = EMD_SUCCESS
  /\ locks = <<>>
  /\ heap = EmptyHeap
  /\ num_threads = 0
  /\ wk = ReportLocals(0, 0)
  /\ taken = {}
  /\ imf_i = 0
  /\ res = Uninit
  /\ noises = <<>>
  /\ noise_residuals = <<>>
  /\ g = [file |-> <<>>]

\* emd_report_to_file_if_error up to the call of emd_error_string: the
\* return on EMD_SUCCESS, the prefix, the buffer
report_enter ==
  /\ pc = "call" /\ p.fn = "emd_report_to_file_if_error"
  /\ IF p.err = EMD_SUCCESS
     THEN /\ Return("void")
          /\ UNCHANGED <<heap, g>>
     ELSE /\ g' = [g EXCEPT !.file = Append(@, "libeemd error: ")]
          /\ heap' = Malloc(heap, {<<"err_string", 0>>})
          /\ pc' = "strcpy"
          /\ ret' = ret
  /\ UNCHANGED <<p, M, output, touched, err, locks, num_threads, wk, taken,
                 imf_i, res, noises, noise_residuals>>

\* one byte of the strcpy in emd_error_string: byte i of the message, the
\* NUL last, is written to err_string[i]
strcpy_byte ==
  /\ pc = "strcpy"
  /\ wk.i < StrcpyBytes(ErrorMessage(p.err))
  /\ touched' = touched \cup {wk.i}
  /\ LET inside == wk.i < ERR_STRING_SIZE
         last   == wk.i + 1 = StrcpyBytes(ErrorMessage(p.err))
     IN  /\ wk' = ReportLocals(wk.i + 1,
                               IF inside THEN wk.written + 1 ELSE wk.written)
         /\ heap' = [heap EXCEPT !.bad = @ \/ ~inside]
         /\ \/ pc' = IF last THEN "fputs" ELSE "strcpy"
            \/ ~inside /\ pc' = "crashed"
  /\ UNCHANGED <<p, ret, M, output, err, locks, num_threads, taken, imf_i,
                 res, noises, noise_residuals, g>>

\* fputs(err_string, file); free(err_string)
report_fputs ==
  /\ pc = "fputs"
  /\ g' = [g EXCEPT !.file = Append(@, ErrorMessage(p.err))]
  /\ heap' = Free(heap, {<<"err_string", 0>>})
  /\ Return("void")
  /\ UNCHANGED <<p, M, output, touched, err, locks, num_threads, wk, taken,
                 imf_i, res, noises, noise_residuals>>

NextReport ==
  \/ report_enter
  \/ strcpy_byte
  \/ report_fputs

SpecReport == InitReport /\ [][NextReport]_vars

\* C21: for every error code other than EMD_SUCCESS, known or unknown,
\* passed to emd_report_to_file_if_error, the message emd_error_string
\* copies, with its terminating NUL, fits into the 64 bytes allocated for
\* it: no byte is written past the end of the buffer.
C21_MessageFitsBuffer ==
  (p.fn = "emd_report_to_file_if_error" /\ p.err # EMD_SUCCESS) =>
    /\ touched \subseteq 0 .. (ERR_STRING_SIZE - 1)
    /\ ~heap.bad
    /\ pc # "crashed"
    /\ pc \in {"fputs", "ret"} =>
         /\ wk.written = StrcpyBytes(ErrorMessage(p.err))
         /\ wk.written <= ERR_STRING_SIZE

\* the same for every code but EMD_NO_NOISE_ADDED_TO_EEMD
C21_MessageFitsBufferOfOtherCodes ==
  p.err # EMD_NO_NOISE_ADDED_TO_EEMD => C21_MessageFitsBuffer

\* the longest message that fits has been copied and printed
C21_LongestFittingMessage ==
  /\ p.fn = "emd_report_to_file_if_error" /\ pc = "ret"
  /\ p.err = EMD_NOISE_ADDED_TO_EMD
  /\ wk.written = ERR_STRING_SIZE - 1 /\ ~heap.bad
====
